---- MODULE Spec2Model ----
(***************************************************************************)
(* Camera-trajectory generator of JsonMaker: the core                      *)
(* (standalone_camera_json.py: StandaloneCameraGenerator and the CLI main) *)
(* and the GUI shell (standalone_json_gui.py).                             *)
(*                                                                         *)
(* Numbers.  A Python float is held as a decimal fixed-point number: the   *)
(* integer v stands for v / Scale.  Every float operation is the exact     *)
(* operation followed by one rounding to the nearest representable value   *)
(* (ties to even), as IEEE arithmetic does at its own resolution.  Angles  *)
(* are held as fractions of a turn: TwoPi units make the full circle.      *)
(***************************************************************************)
EXTENDS Integers, Sequences, FiniteSets, TLC

\* ------------------------------------------------------------------ bounds
\* Largest frame count a request asks for.
MaxFrames == 5
\* Largest keyframe stride a request asks for.
MaxStep == 3
\* Decimal digits the number model keeps after the point.
Digits == 2

\* ------------------------------------------------------------- arithmetic
RECURSIVE Pow10(_)
Pow10(n) == IF n <= 0 THEN 1 ELSE 10 * Pow10(n - 1)

Scale == Pow10(Digits)

\* The full turn 2*math.pi, in angle units.
TwoPi == 36 * Scale

Abs(x) == IF x < 0 THEN -x ELSE x

\* a / b rounded to the nearest integer, ties to even (b # 0).
RDiv(a, b) ==
    LET n == IF b < 0 THEN -a ELSE a
        d == Abs(b)
        q == n \div d
        r == n - q * d
    IN  IF 2 * r < d THEN q
        ELSE IF 2 * r > d THEN q + 1
        ELSE IF q % 2 = 0 THEN q ELSE q + 1

\* float('inf'), float('-inf') and float('nan'): values beyond every finite
\* float of the model.  Python's float() parses "inf" and "nan", so the
\* keyword arguments and the command line can carry them.
PosInf == 1000000 * Scale
NegInf == -PosInf
NaN == PosInf + 1

IsNaN(x) == x = NaN
IsInf(x) == x = PosInf \/ x = NegInf
IsFinite(x) == ~IsNaN(x) /\ ~IsInf(x)

\* -x, a + b and a - b on floats: nan stays nan, inf - inf is nan.
FNeg(x) == IF IsNaN(x) THEN NaN ELSE -x
FAdd(a, b) ==
    IF IsNaN(a) \/ IsNaN(b) THEN NaN
    ELSE IF IsInf(a) THEN (IF IsInf(b) /\ b # a THEN NaN ELSE a)
    ELSE IF IsInf(b) THEN b
    ELSE a + b
FSub(a, b) == FAdd(a, FNeg(b))

\* float * float and float / float (b # 0): inf * 0 and inf / inf are nan.
FMul(a, b) ==
    IF IsNaN(a) \/ IsNaN(b) THEN NaN
    ELSE IF IsInf(a) \/ IsInf(b)
    THEN IF a = 0 \/ b = 0 THEN NaN
         ELSE IF (a > 0) = (b > 0) THEN PosInf ELSE NegInf
    ELSE RDiv(a * b, Scale)
FDiv(a, b) ==
    IF IsNaN(a) \/ IsNaN(b) THEN NaN
    ELSE IF IsInf(a)
    THEN IF IsInf(b) THEN NaN
         ELSE IF (a > 0) = (b > 0) THEN PosInf ELSE NegInf
    ELSE IF IsInf(b) THEN 0
    ELSE RDiv(a * Scale, b)

\* int -> float.
ToFloat(n) == n * Scale

RECURSIVE SqrtSearch(_, _, _)
SqrtSearch(n, lo, hi) ==
    IF hi - lo <= 1
    THEN IF n - lo * lo <= hi * hi - n THEN lo ELSE hi
    ELSE LET mid == (lo + hi) \div 2
         IN  IF mid <= n \div mid THEN SqrtSearch(n, mid, hi)
                                  ELSE SqrtSearch(n, lo, mid)

\* math.sqrt of a float x >= 0: the nearest r with (r/Scale)^2 = x/Scale.
\* math.sqrt(nan) is nan and math.sqrt(inf) is inf.
Sqrt(x) ==
    IF ~IsFinite(x) THEN x
    ELSE IF x = 0 THEN 0
    ELSE SqrtSearch(x * Scale, 0, (x + Scale) \div 2 + 1)

\* math.sin of an angle in 0 .. TwoPi/2, by Bhaskara's rational
\* approximation 16 u (1-2u) / (5/2 - 4 u (1-2u)), u the turn fraction;
\* exact at 0, a quarter turn and a half turn.
SinHalf(a) ==
    LET m == RDiv(a * (TwoPi - 2 * a), TwoPi)
    IN  RDiv(32 * m * Scale, 5 * TwoPi - 8 * m)

\* math.sin and math.cos of any angle.
Sin(angle) ==
    LET a == angle % TwoPi
    IN  IF 2 * a <= TwoPi THEN SinHalf(a) ELSE -SinHalf(a - TwoPi \div 2)

Cos(angle) == Sin(angle + TwoPi \div 4)

\* math.degrees(math.atan(x)), x >= 0 a float, by the approximation
\* atan x = x (45 + 15.66 (1 - x)) degrees on [0, 1] and 90 - atan(1/x)
\* beyond; exact at 0 and 1.
AtanUnit(x) == FMul(x, 45 * Scale + RDiv(1566 * (Scale - x), 100))

AtanDegrees(x) ==
    LET ax == Abs(x)
        d  == IF ax <= Scale THEN AtanUnit(ax)
              ELSE 90 * Scale - AtanUnit(FDiv(Scale, ax))
    IN  IF x < 0 THEN -d ELSE d

\* round(x, ndigits) on a float: to the nearest multiple of 10^-ndigits,
\* ties to even; values already that short are unchanged, and with ndigits
\* given "nans and infinities round to themselves".
PyRound(x, ndigits) ==
    IF ~IsFinite(x) \/ ndigits >= Digits THEN x
    ELSE LET unit == Pow10(Digits - ndigits)
         IN  RDiv(x, unit) * unit

\* None, and the Optional wrappers of the keyword arguments.
None == <<>>
Some(v) == <<v>>
IsNone(o) == o = <<>>
Value(o) == o[1]

\* ------------------------------------------------------------ path sampler
\* The direction ignored: every path counterclockwise.
DirMult_Ignored(direction) == 1

\* dir_mult = -1 if direction == "clockwise" else 1
DirMult(direction) == IF direction = "clockwise" THEN -1 ELSE 1

\* The angle of one frame of the circular path (frames >= 1).
CircularAngle(frame, frames, direction) ==
    RDiv(TwoPi * frame, frames) * DirMult(direction)

\* The loop body taking the height from center[1] instead of center[2].
CircularPosition_WrongIndex(center, radius, frame, frames, direction) ==
    LET angle == CircularAngle(frame, frames, direction)
    IN  << FAdd(center[1], FMul(radius, Cos(angle))),
           FAdd(center[2], FMul(radius, Sin(angle))),
           center[2] >>

\* One position of the circular path: the body of the for loop.
CircularPosition(center, radius, frame, frames, direction) ==
    LET angle == CircularAngle(frame, frames, direction)
    IN  << FAdd(center[1], FMul(radius, Cos(angle))),
           FAdd(center[2], FMul(radius, Sin(angle))),
           center[3] >>

\* calculate_circular_path: one position per frame of range(frames).
calculate_circular_path(center, radius, frames, direction) ==
    [ k \in 1 .. (IF frames > 0 THEN frames ELSE 0) |->
        CircularPosition(center, radius, k - 1, frames, direction) ]

\* The normalized time dividing by frames, as the circular angle does.
SpiralT_OverFrames(frame, frames) ==
    IF frames > 1 THEN FDiv(ToFloat(frame), ToFloat(frames)) ELSE 0

\* t = frame / (frames - 1) if frames > 1 else 0
SpiralT(frame, frames) ==
    IF frames > 1 THEN FDiv(ToFloat(frame), ToFloat(frames - 1)) ELSE 0

SpiralAngle(frame, frames, loops, direction) ==
    RDiv(RDiv(TwoPi * loops, Scale) * SpiralT(frame, frames), Scale)
        * DirMult(direction)

\* radius = start_radius + (end_radius - start_radius) * t, and the height.
Lerp(start, end, t) == FAdd(start, FMul(FSub(end, start), t))

SpiralPosition(center, start_radius, end_radius, start_height, end_height, loops, frame, frames, direction) ==
    LET t      == SpiralT(frame, frames)
        angle  == SpiralAngle(frame, frames, loops, direction)
        radius == Lerp(start_radius, end_radius, t)
        height == Lerp(start_height, end_height, t)
    IN  << FAdd(center[1], FMul(radius, Cos(angle))),
           FAdd(center[2], FMul(radius, Sin(angle))),
           FAdd(center[3], height) >>

calculate_spiral_path(center, start_radius, end_radius, start_height, end_height, loops, frames, direction) ==
    [ k \in 1 .. (IF frames > 0 THEN frames ELSE 0) |->
        SpiralPosition(center, start_radius, end_radius, start_height,
                       end_height, loops, k - 1, frames, direction) ]

\* --------------------------------------------------------- target resolver
\* length = math.sqrt(dx*dx + dy*dy + dz*dz) of the vector position -> center.
DirectionLength(position, center) ==
    LET dx == FSub(center[1], position[1])
        dy == FSub(center[2], position[2])
        dz == FSub(center[3], position[3])
    IN  Sqrt(FAdd(FAdd(FMul(dx, dx), FMul(dy, dy)), FMul(dz, dz)))

\* The fallback returning the origin instead of the centre.
calculate_target_from_distance_Origin(position, center, distance) ==
    LET dx == FSub(center[1], position[1])
        dy == FSub(center[2], position[2])
        dz == FSub(center[3], position[3])
        length == DirectionLength(position, center)
    IN  IF length = 0 THEN << 0, 0, 0 >>
        ELSE << FAdd(position[1], FMul(FDiv(dx, length), distance)),
                FAdd(position[2], FMul(FDiv(dy, length), distance)),
                FAdd(position[3], FMul(FDiv(dz, length), distance)) >>

\* The direction vector left unnormalised.
calculate_target_from_distance_NoNorm(position, center, distance) ==
    LET dx == FSub(center[1], position[1])
        dy == FSub(center[2], position[2])
        dz == FSub(center[3], position[3])
        length == DirectionLength(position, center)
    IN  IF length = 0 THEN center
        ELSE << FAdd(position[1], FMul(dx, distance)),
                FAdd(position[2], FMul(dy, distance)),
                FAdd(position[3], FMul(dz, distance)) >>

calculate_target_from_distance(position, center, distance) ==
    LET dx == FSub(center[1], position[1])
        dy == FSub(center[2], position[2])
        dz == FSub(center[3], position[3])
        length == DirectionLength(position, center)
    IN  IF length = 0 THEN center
        ELSE << FAdd(position[1], FMul(FDiv(dx, length), distance)),
                FAdd(position[2], FMul(FDiv(dy, length), distance)),
                FAdd(position[3], FMul(FDiv(dz, length), distance)) >>

\* The targets with the fixed target tested before the distance.
ResolveTargets_FixedFirst(positions, center, target, target_distance, frames) ==
    IF ~IsNone(target)
    THEN [ k \in 1 .. (IF frames > 0 THEN frames ELSE 0) |-> target ]
    ELSE IF ~IsNone(target_distance)
    THEN [ k \in 1 .. Len(positions) |->
             calculate_target_from_distance(positions[k], center,
                                            Value(target_distance)) ]
    ELSE [ k \in 1 .. (IF frames > 0 THEN frames ELSE 0) |-> center ]

\* The targets of generate_camera_animation, one per frame.
ResolveTargets(positions, center, target, target_distance, frames) ==
    IF ~IsNone(target_distance)
    THEN [ k \in 1 .. Len(positions) |->
             calculate_target_from_distance(positions[k], center,
                                            Value(target_distance)) ]
    ELSE IF ~IsNone(target)
    THEN [ k \in 1 .. (IF frames > 0 THEN frames ELSE 0) |-> target ]
    ELSE [ k \in 1 .. (IF frames > 0 THEN frames ELSE 0) |-> center ]

\* ---------------------------------------------------- coordinate normalizer
\* The axis swap without the negation.
ConvertPoint_NoNegate(p) == << p[1], p[3], p[2] >>

\* The third component taken from z instead of y.
ConvertPoint_WrongAxis(p) == << p[1], p[3], FNeg(p[3]) >>

\* Blender to SuperSplat, one point: (x, y, z) -> (x, z, -y).
ConvertPoint(p) == << p[1], p[3], FNeg(p[2]) >>

\* convert_coordinates: <<converted_positions, converted_targets>>.
convert_coordinates(positions, targets) ==
    << [ k \in 1 .. Len(positions) |-> ConvertPoint(positions[k]) ],
       [ k \in 1 .. Len(targets) |-> ConvertPoint(targets[k]) ] >>

\* ------------------------------------------------------------ pose assembler
round_tuple(t, precision) == [ k \in 1 .. Len(t) |-> PyRound(t[k], precision) ]

\* focal_length_to_fov, focal_length # 0: degrees(2 * atan(sensor / (2 f))).
focal_length_to_fov(focal_length, sensor_size) ==
    2 * AtanDegrees(FDiv(sensor_size, 2 * focal_length))

\* f"{frame_num:04d}": the decimal digits, zero-padded to at least four.
RECURSIVE DigitsOf(_)
DigitsOf(n) == IF n < 10 THEN << n >> ELSE Append(DigitsOf(n \div 10), n % 10)

Pad4(n) ==
    LET ds == DigitsOf(n)
    IN  [ k \in 1 .. (4 - Len(ds)) |-> 0 ] \o ds

\* The pose with its time taken from the 0-based index.
Pose_TimeFromIndex(i, pos, tgt, fps, focal_length, fov) ==
    [ frame        |-> i + 1,
      time         |-> FDiv(ToFloat(i), ToFloat(fps)),
      position     |-> pos,
      target       |-> tgt,
      focal_length |-> focal_length,
      fov          |-> PyRound(fov, 2),
      name         |-> << "camera_frame_" >> \o Pad4(i + 1) ]

\* One pose dictionary (fps # 0).
Pose(i, pos, tgt, fps, focal_length, fov) ==
    [ frame        |-> i + 1,
      time         |-> FDiv(ToFloat(i + 1), ToFloat(fps)),
      position     |-> pos,
      target       |-> tgt,
      focal_length |-> focal_length,
      fov          |-> PyRound(fov, 2),
      name         |-> << "camera_frame_" >> \o Pad4(i + 1) ]

Min(x, y) == IF x < y THEN x ELSE y

\* The keyframe test without its "or i == len(positions) - 1".
IsKeyframe_NoLast(i, last, keyframe_step) == i % keyframe_step = 0

\* The test of the pose loop on frame index i, last = len(positions) - 1
\* (keyframe_step # 0).
IsKeyframe(i, last, keyframe_step) == i % keyframe_step = 0 \/ i = last

\* The frame indices the pose loop keeps, in the order it meets them:
\* i over enumerate(zip(positions, targets)) with the keyframe test.
KeptIndices(n, last, keyframe_step) ==
    SelectSeq([ k \in 1 .. n |-> k - 1 ],
              LAMBDA i : IsKeyframe(i, last, keyframe_step))

\* The pose loop: the poses appended, or ok = FALSE for the
\* ZeroDivisionError its first iteration raises (0 % keyframe_step with
\* keyframe_step = 0, else frame_num / fps with fps = 0).
BuildPoses(positions, targets, keyframe_step, fps, focal_length, fov) ==
    LET n == Min(Len(positions), Len(targets))
    IN  IF n >= 1 /\ (keyframe_step = 0 \/ fps = 0)
        THEN [ ok |-> FALSE, poses |-> << >> ]
        ELSE LET kept == KeptIndices(n, Len(positions) - 1, keyframe_step)
             IN  [ ok |-> TRUE,
                   poses |-> [ k \in 1 .. Len(kept) |->
                                 Pose(kept[k], positions[kept[k] + 1],
                                      targets[kept[k] + 1], fps, focal_length,
                                      fov) ] ]

\* The tag hard-coded to the converted system.
CoordinateSystem_Always(convert_coords) == "SUPERSPLAT"

\* "coordinate_system": "SUPERSPLAT" if convert_coords else "BLENDER"
CoordinateSystem(convert_coords) ==
    IF convert_coords THEN "SUPERSPLAT" ELSE "BLENDER"

\* The dictionary with keyframes_generated taken from the frame count.
BaseRecord_CountsFrames(a, thePoses, timestamp) ==
    [ camera_name          |-> "Generated_Camera",
      frame_rate           |-> a.fps,
      frame_start          |-> 1,
      frame_end            |-> a.frames,
      frame_step           |-> 1,
      coordinate_system    |-> IF a.convert_coords THEN "SUPERSPLAT" ELSE "BLENDER",
      total_frames         |-> a.frames,
      keyframes_generated  |-> a.frames,
      keyframe_step        |-> a.keyframe_step,
      animation_type       |-> a.animation_type,
      direction            |-> a.direction,
      export_timestamp     |-> timestamp,
      coordinate_precision |-> a.precision,
      center               |-> a.center,
      poses                |-> thePoses ]

\* The json_data dictionary as first built, before the optional keys.
BaseRecord(a, thePoses, timestamp) ==
    [ camera_name          |-> "Generated_Camera",
      frame_rate           |-> a.fps,
      frame_start          |-> 1,
      frame_end            |-> a.frames,
      frame_step           |-> 1,
      coordinate_system    |-> CoordinateSystem(a.convert_coords),
      total_frames         |-> a.frames,
      keyframes_generated  |-> Len(thePoses),
      keyframe_step        |-> a.keyframe_step,
      animation_type       |-> a.animation_type,
      direction            |-> a.direction,
      export_timestamp     |-> timestamp,
      coordinate_precision |-> a.precision,
      center               |-> a.center,
      poses                |-> thePoses ]

\* "Add target information".
WithTargetKeys(a, rec) ==
    IF ~IsNone(a.target_distance)
    THEN rec @@ [ target_distance |-> Value(a.target_distance) ]
    ELSE IF ~IsNone(a.target)
    THEN rec @@ [ target |-> a.target ]
    ELSE rec

\* The type-specific keys with radius written for every type.
WithTypeKeys_RadiusAlways(a, rec) ==
    IF a.animation_type = "spiral"
    THEN rec @@ [ radius |-> a.radius,
                  spiral_loops |-> a.spiral_loops,
                  start_radius |-> a.start_radius,
                  end_radius   |-> a.end_radius,
                  start_height |-> a.start_height,
                  end_height   |-> a.end_height ]
    ELSE rec @@ [ radius |-> a.radius ]

\* "Add type-specific parameters".
WithTypeKeys(a, rec) ==
    IF a.animation_type = "circular"
    THEN rec @@ [ radius |-> a.radius ]
    ELSE IF a.animation_type = "spiral"
    THEN rec @@ [ spiral_loops |-> a.spiral_loops,
                  start_radius |-> a.start_radius,
                  end_radius   |-> a.end_radius,
                  start_height |-> a.start_height,
                  end_height   |-> a.end_height ]
    ELSE rec

\* The dictionary generate_camera_animation returns.
AssembleRecord(a, thePoses, timestamp) ==
    WithTypeKeys(a, WithTargetKeys(a, BaseRecord(a, thePoses, timestamp)))
        @@ [ generator |-> "Standalone Camera JSON Generator v1.0" ]

\* The positions the sampler yields for the arguments a (a known shape).
SamplePositions(a) ==
    IF a.animation_type = "circular"
    THEN calculate_circular_path(a.center, a.radius, a.frames, a.direction)
    ELSE calculate_spiral_path(a.center, a.start_radius, a.end_radius,
                               a.start_height, a.end_height, a.spiral_loops,
                               a.frames, a.direction)

\* The stages after sampling, on their locals.
ConvertStage(a, ps, ts) ==
    IF a.convert_coords THEN convert_coordinates(ps, ts) ELSE << ps, ts >>

RoundStage(a, pts) ==
    [ k \in 1 .. Len(pts) |-> round_tuple(pts[k], a.precision) ]

\* Where a call with the arguments a raises, "" when it returns.
RaisesAt(a) ==
    IF a.animation_type \notin { "circular", "spiral" } THEN "sample"
    ELSE IF a.focal_length = 0 THEN "fov"
    ELSE IF a.frames >= 1 /\ (a.keyframe_step = 0 \/ a.fps = 0) THEN "poses"
    ELSE ""

\* generate_camera_animation as one call: the exception it raises, or the
\* dictionary it returns when datetime.now() reads timestamp.
generate_camera_animation(a, timestamp) ==
    IF a.animation_type \notin { "circular", "spiral" }
    THEN [ ok |-> FALSE, error |-> "ValueError", data |-> None ]
    ELSE IF a.focal_length = 0
    THEN [ ok |-> FALSE, error |-> "ZeroDivisionError", data |-> None ]
    ELSE
    LET sampled   == SamplePositions(a)
        resolved  == ResolveTargets(sampled, a.center, a.target,
                                    a.target_distance, a.frames)
        converted == ConvertStage(a, sampled, resolved)
        loop      == BuildPoses(RoundStage(a, converted[1]),
                                RoundStage(a, converted[2]), a.keyframe_step,
                                a.fps, a.focal_length,
                                focal_length_to_fov(a.focal_length,
                                                    a.sensor_size))
    IN  IF loop.ok
        THEN [ ok |-> TRUE, error |-> "",
               data |-> Some(AssembleRecord(a, loop.poses, timestamp)) ]
        ELSE [ ok |-> FALSE, error |-> "ZeroDivisionError", data |-> None ]

\* ------------------------------------------------------------------ inputs
Vec(x, y, z) == << x * Scale, y * Scale, z * Scale >>

Centers == { Vec(0, 0, 0), Vec(1, 2, 3) }

\* The shape part of a request: animation type and its parameters.
Shape(type, radius, sr, er, sh, eh, loops) ==
    [ animation_type |-> type, radius |-> radius, start_radius |-> sr,
      end_radius |-> er, start_height |-> sh, end_height |-> eh,
      spiral_loops |-> loops ]

Shapes ==
    { Shape("circular", 10 * Scale, 5 * Scale, 15 * Scale, 0, 10 * Scale, 2 * Scale),
      Shape("circular", 0, 5 * Scale, 15 * Scale, 0, 10 * Scale, 2 * Scale),
      Shape("spiral", 10 * Scale, 5 * Scale, 15 * Scale, 0, 10 * Scale, 2 * Scale),
      Shape("spiral", 10 * Scale, 4 * Scale, 0, 3 * Scale, 0, Scale \div 2),
      Shape("linear", 10 * Scale, 5 * Scale, 15 * Scale, 0, 10 * Scale, 2 * Scale) }

\* The target part of a request: fixed target and target distance.
TargetSpecs ==
    { [ target |-> None, target_distance |-> None ],
      [ target |-> Vec(0, 0, -10), target_distance |-> None ],
      [ target |-> None, target_distance |-> Some(5 * Scale) ],
      [ target |-> None, target_distance |-> Some(-5 * Scale) ],
      [ target |-> Vec(0, 0, -10), target_distance |-> Some(5 * Scale) ] }

Directions == { "clockwise", "counterclockwise" }
FrameCounts == 0 .. MaxFrames
FrameRates == { -24, 0, 24 }
FocalLengths == { 0, 35 * Scale }
SensorSizes == { 32 * Scale }
Precisions == { 1, 6 }
Steps == 0 .. MaxStep
Timestamps == { 1, 2 }

\* Every keyword-argument set a request is drawn from.
Requests ==
    { [ animation_type |-> sh.animation_type, direction |-> dir,
        center |-> c, target |-> ts.target,
        target_distance |-> ts.target_distance,
        radius |-> sh.radius, start_radius |-> sh.start_radius,
        end_radius |-> sh.end_radius, start_height |-> sh.start_height,
        end_height |-> sh.end_height, spiral_loops |-> sh.spiral_loops,
        frames |-> n, fps |-> fps, focal_length |-> fl, sensor_size |-> ss,
        convert_coords |-> cc, precision |-> pr, keyframe_step |-> st ] :
      sh \in Shapes, dir \in Directions, c \in Centers, ts \in TargetSpecs,
      n \in FrameCounts, fps \in FrameRates, fl \in FocalLengths,
      ss \in SensorSizes, cc \in BOOLEAN, pr \in Precisions, st \in Steps }

\* Requests that carry a non-finite float: float("inf") as the radius
\* (--radius inf) and float("nan") in the center (--center nan,2,3), next
\* to finite ones.
NonFiniteShapes ==
    { Shape("circular", PosInf, 5 * Scale, 15 * Scale, 0, 10 * Scale, 2 * Scale),
      Shape("circular", 10 * Scale, 5 * Scale, 15 * Scale, 0, 10 * Scale, 2 * Scale),
      Shape("spiral", 10 * Scale, 5 * Scale, 15 * Scale, 0, 10 * Scale, 2 * Scale) }

NonFiniteCenters == { Vec(0, 0, 0), << NaN, 2 * Scale, 3 * Scale >> }

NonFiniteRequests ==
    { [ animation_type |-> sh.animation_type, direction |-> dir,
        center |-> c, target |-> None, target_distance |-> td,
        radius |-> sh.radius, start_radius |-> sh.start_radius,
        end_radius |-> sh.end_radius, start_height |-> sh.start_height,
        end_height |-> sh.end_height, spiral_loops |-> sh.spiral_loops,
        frames |-> n, fps |-> 24, focal_length |-> 35 * Scale,
        sensor_size |-> 32 * Scale, convert_coords |-> cc, precision |-> pr,
        keyframe_step |-> st ] :
      sh \in NonFiniteShapes, dir \in Directions, c \in NonFiniteCenters,
      td \in { None, Some(5 * Scale) }, n \in FrameCounts, cc \in BOOLEAN,
      pr \in Precisions, st \in { 0, 2 } }

\* Well-formed requests, over more shapes than Requests has: orbits of
\* radius 0, 2.5 and 10, and spirals that widen and rise, that collapse
\* onto the centre after half a loop, and that narrow and descend.
ValidShapes ==
    { Shape("circular", 0, 5 * Scale, 15 * Scale, 0, 10 * Scale, 2 * Scale),
      Shape("circular", (5 * Scale) \div 2, 5 * Scale, 15 * Scale, 0, 10 * Scale, 2 * Scale),
      Shape("circular", 10 * Scale, 5 * Scale, 15 * Scale, 0, 10 * Scale, 2 * Scale),
      Shape("spiral", 10 * Scale, 5 * Scale, 15 * Scale, 0, 10 * Scale, 2 * Scale),
      Shape("spiral", 10 * Scale, 4 * Scale, 0, 3 * Scale, 0, Scale \div 2),
      Shape("spiral", 10 * Scale, 15 * Scale, 5 * Scale, 10 * Scale, -2 * Scale, Scale) }

ValidRequests ==
    { [ animation_type |-> sh.animation_type, direction |-> dir,
        center |-> c, target |-> ts.target,
        target_distance |-> ts.target_distance,
        radius |-> sh.radius, start_radius |-> sh.start_radius,
        end_radius |-> sh.end_radius, start_height |-> sh.start_height,
        end_height |-> sh.end_height, spiral_loops |-> sh.spiral_loops,
        frames |-> n, fps |-> 24, focal_length |-> 35 * Scale,
        sensor_size |-> 32 * Scale, convert_coords |-> cc, precision |-> pr,
        keyframe_step |-> st ] :
      sh \in ValidShapes, dir \in Directions, c \in Centers,
      ts \in { t \in TargetSpecs :
                 IsNone(t.target) \/ IsNone(t.target_distance) },
      n \in FrameCounts, cc \in BOOLEAN, pr \in Precisions,
      st \in 1 .. MaxStep }

\* ------------------------------------------------------------------- state
VARIABLES
    caller,       \* who entered generate_camera_animation: "none", "direct", "cli"
    pc,           \* the statement generate_camera_animation is at
    args,         \* its keyword arguments (None before the first call)
    positions,    \* its local positions
    targets,      \* its local targets
    fov,          \* its local fov
    poses,        \* its local poses
    trace,        \* the stages it has completed, in order
    result,       \* Some(json_data) once it has returned, else None
    error,        \* the exception it raised, "" when none
    argv,         \* Some(the values parse_args returned) in the CLI, else None
    output,       \* args.output of the CLI ("" before it has parsed any)
    files,        \* the file system: path -> file
    files0,       \* the file system when the CLI process started
    exit_status,  \* Some(status) once the CLI process has exited
    form,         \* the GUI's Tk variables
    workers,      \* the generate_json_thread threads started, in click order
    after_queue,  \* the root.after(0, ...) callbacks the main loop has yet to run
    progress,     \* whether the progress bar is running
    messages,     \* the message boxes shown, in order
    clicks,       \* Generate clicks so far
    edits,        \* form edits and preset loads so far
    generators,   \* the StandaloneCameraGenerator instances constructed: their fields
    calls         \* the generate_camera_animation calls made on them: their frames

coreVars == << caller, pc, args, positions, targets, fov, poses, trace,
               result, error >>
cliVars == << argv, output, files, files0, exit_status >>
guiVars == << form, workers, after_queue, progress, messages, clicks, edits >>
sessionVars == << generators, calls >>
vars == << coreVars, cliVars, guiVars, sessionVars >>

\* ------------------------------------------------------------ file system
Paths ==
    { "a.json", "b.json", "your_example_camera.json", "close_orbit_camera.json",
      "wide_orbit_camera.json", "rising_spiral_camera.json",
      "descending_spiral_camera.json" }

\* The paths a command line names.
CliPaths == { "a.json", "b.json" }

Absent == [ kind |-> "absent", data |-> None ]
OldFile == [ kind |-> "old", data |-> None ]
\* A file json.dump has written in full, and one it was cut off in.
JsonFile(data) == [ kind |-> "json", data |-> Some(data) ]
PartialFile == [ kind |-> "partial", data |-> None ]

\* ---------------------------------------------- generate_camera_animation
\* The locals of a call that has not assigned them yet.
Unset == None

\* Entering the function with keyword arguments a.
Enter(a, who) ==
    /\ caller' = who
    /\ pc' = "sample"
    /\ args' = Some(a)
    /\ positions' = Unset
    /\ targets' = Unset
    /\ fov' = Unset
    /\ poses' = Unset
    /\ trace' = << >>
    /\ result' = None
    /\ error' = ""

\* Leaving it by an exception: the locals are gone, nothing is returned.
Raise(exc) ==
    /\ pc' = "raised"
    /\ error' = exc
    /\ positions' = Unset
    /\ targets' = Unset
    /\ fov' = Unset
    /\ poses' = Unset
    /\ result' = None
    /\ UNCHANGED << caller, args, trace >>

\* The sampling stage with the else branch falling through to the spiral.
GenSample_AnyType ==
    /\ pc = "sample"
    /\ positions' = SamplePositions(Value(args))
    /\ pc' = "targets"
    /\ trace' = Append(trace, "sample")
    /\ UNCHANGED << caller, args, targets, fov, poses, result, error >>
    /\ UNCHANGED << cliVars, guiVars, sessionVars >>

\* "Calculate camera positions"
GenSample ==
    /\ pc = "sample"
    /\ LET a == Value(args)
       IN  IF a.animation_type \in { "circular", "spiral" }
           THEN /\ positions' = SamplePositions(a)
                /\ pc' = "targets"
                /\ trace' = Append(trace, "sample")
                /\ UNCHANGED << caller, args, targets, fov, poses, result, error >>
           ELSE Raise("ValueError")
    /\ UNCHANGED << cliVars, guiVars, sessionVars >>

\* "Calculate targets"
GenTargets ==
    /\ pc = "targets"
    /\ LET a == Value(args)
       IN  targets' = ResolveTargets(positions, a.center, a.target,
                                     a.target_distance, a.frames)
    /\ pc' = "convert"
    /\ trace' = Append(trace, "targets")
    /\ UNCHANGED << caller, args, positions, fov, poses, result, error >>
    /\ UNCHANGED << cliVars, guiVars, sessionVars >>

\* "Convert coordinate system if requested"
GenConvert ==
    /\ pc = "convert"
    /\ IF Value(args).convert_coords
       THEN /\ positions' = convert_coordinates(positions, targets)[1]
            /\ targets' = convert_coordinates(positions, targets)[2]
       ELSE UNCHANGED << positions, targets >>
    /\ pc' = "round"
    /\ trace' = Append(trace, "convert")
    /\ UNCHANGED << caller, args, fov, poses, result, error >>
    /\ UNCHANGED << cliVars, guiVars, sessionVars >>

\* The rounding stage leaving the coordinates as they are.
GenRound_Skip ==
    /\ pc = "round"
    /\ pc' = "fov"
    /\ trace' = Append(trace, "round")
    /\ UNCHANGED << caller, args, positions, targets, fov, poses, result, error >>
    /\ UNCHANGED << cliVars, guiVars, sessionVars >>

\* "Round to specified precision"
GenRound ==
    /\ pc = "round"
    /\ positions' = [ k \in 1 .. Len(positions) |->
                        round_tuple(positions[k], Value(args).precision) ]
    /\ targets' = [ k \in 1 .. Len(targets) |->
                      round_tuple(targets[k], Value(args).precision) ]
    /\ pc' = "fov"
    /\ trace' = Append(trace, "round")
    /\ UNCHANGED << caller, args, fov, poses, result, error >>
    /\ UNCHANGED << cliVars, guiVars, sessionVars >>

\* "Calculate field of view from focal length"
GenFov ==
    /\ pc = "fov"
    /\ LET a == Value(args)
       IN  IF a.focal_length = 0
           THEN Raise("ZeroDivisionError")
           ELSE /\ fov' = Some(focal_length_to_fov(a.focal_length, a.sensor_size))
                /\ pc' = "poses"
                /\ trace' = Append(trace, "fov")
                /\ UNCHANGED << caller, args, positions, targets, poses,
                                result, error >>
    /\ UNCHANGED << cliVars, guiVars, sessionVars >>

\* "Create poses with SuperSplat-compatible format and keyframe filtering"
GenPoses ==
    /\ pc = "poses"
    /\ LET a == Value(args)
           loop == BuildPoses(positions, targets, a.keyframe_step, a.fps,
                              a.focal_length, Value(fov))
       IN  IF loop.ok
           THEN /\ poses' = loop.poses
                /\ pc' = "assemble"
                /\ trace' = Append(trace, "poses")
                /\ UNCHANGED << caller, args, positions, targets, fov,
                                result, error >>
           ELSE Raise("ZeroDivisionError")
    /\ UNCHANGED << cliVars, guiVars, sessionVars >>

\* "Create SuperSplat-compatible JSON structure" up to the return; the
\* timestamp is what datetime.now() reads.
GenReturn ==
    /\ pc = "assemble"
    /\ \E timestamp \in Timestamps :
         result' = Some(AssembleRecord(Value(args), poses, timestamp))
    /\ pc' = "returned"
    /\ trace' = Append(trace, "assemble")
    /\ positions' = Unset
    /\ targets' = Unset
    /\ fov' = Unset
    /\ poses' = Unset
    /\ UNCHANGED << caller, args, error >>
    /\ UNCHANGED << cliVars, guiVars, sessionVars >>

\* A caller that holds a generator calls generate_camera_animation itself,
\* with keyword arguments out of reqs.
DirectCallFrom(reqs) ==
    /\ caller = "none"
    /\ pc = "idle"
    /\ \E a \in reqs : Enter(a, "direct")
    /\ UNCHANGED << cliVars, guiVars, sessionVars >>

DirectCall == DirectCallFrom(Requests)

\* --------------------------------------------------------------------- CLI
\* What argparse accepts: --animation-type has choices, --precision has
\* choices=range(1, 15).
ArgvAccepted(a) ==
    /\ a.animation_type \in { "circular", "spiral" }
    /\ a.direction \in { "clockwise", "counterclockwise" }
    /\ a.precision \in 1 .. 14

\* "If neither target nor target_distance specified, use default target"
CliTarget(a) ==
    IF IsNone(a.target) /\ IsNone(a.target_distance)
    THEN Vec(0, 0, -10) ELSE a.target

\* main() from parse_args to the call of generate_camera_animation, for a
\* command line out of reqs.
CliMainFrom(reqs) ==
    /\ caller = "none"
    /\ pc = "idle"
    /\ IsNone(exit_status)
    /\ \E a \in reqs, path \in CliPaths :
         /\ argv' = Some(a)
         /\ output' = path
         /\ IF ArgvAccepted(a)
            THEN /\ Enter([ a EXCEPT !.target = CliTarget(a) ], "cli")
                 /\ UNCHANGED exit_status
            ELSE /\ exit_status' = Some(2)
                 /\ caller' = "cli"
                 /\ UNCHANGED << pc, args, positions, targets, fov, poses,
                                 trace, result, error >>
    /\ UNCHANGED << files, files0, guiVars, sessionVars >>

CliMain == CliMainFrom(Requests)

\* main() saving in the except clause as well.
CliSave_OnRaise ==
    /\ caller = "cli"
    /\ pc \in { "returned", "raised" }
    /\ IsNone(exit_status)
    /\ files' = [ files EXCEPT ![output] =
                    IF pc = "returned" THEN JsonFile(Value(result))
                                       ELSE PartialFile ]
    /\ exit_status' = Some(IF pc = "returned" THEN 0 ELSE 1)
    /\ UNCHANGED << coreVars, argv, output, files0, guiVars, sessionVars >>

\* save_json succeeds, main prints the success lines and returns.
CliSave ==
    /\ caller = "cli"
    /\ pc = "returned"
    /\ IsNone(exit_status)
    /\ files' = [ files EXCEPT ![output] = JsonFile(Value(result)) ]
    /\ exit_status' = Some(0)
    /\ UNCHANGED << coreVars, argv, output, files0, guiVars, sessionVars >>

\* save_json raises: os.makedirs or open fails and the file is untouched,
\* or the write is cut off after open has truncated the file.
CliSaveFails ==
    /\ caller = "cli"
    /\ pc = "returned"
    /\ IsNone(exit_status)
    /\ \E cut \in BOOLEAN :
         files' = IF cut THEN [ files EXCEPT ![output] = PartialFile ] ELSE files
    /\ error' = "OSError"
    /\ exit_status' = Some(1)
    /\ UNCHANGED << caller, pc, args, positions, targets, fov, poses, trace,
                    result, argv, output, files0, guiVars, sessionVars >>

\* except Exception as e: print the error, sys.exit(1).
CliError ==
    /\ caller = "cli"
    /\ pc = "raised"
    /\ IsNone(exit_status)
    /\ exit_status' = Some(1)
    /\ UNCHANGED << coreVars, argv, output, files, files0, guiVars, sessionVars >>

\* --------------------------------------------------------------------- GUI
\* Largest number of Generate clicks, and of form edits, in one session.
MaxClicks == 2
MaxEdits == 2

\* The Tk variables as __init__ sets them.
InitialForm ==
    [ radius |-> 10 * Scale, center |-> Vec(0, 0, 0), target |-> Vec(0, 0, -10),
      frames |-> 180, fps |-> 24, focal_length |-> 35 * Scale,
      sensor_size |-> 32 * Scale, output_path |-> "",
      animation_type |-> "circular", direction |-> "clockwise",
      spiral_loops |-> 2 * Scale, start_radius |-> 5 * Scale,
      end_radius |-> 15 * Scale, start_height |-> 0, end_height |-> 10 * Scale,
      convert_coords |-> FALSE, precision |-> 6,
      target_distance |-> 10 * Scale, use_auto_target |-> FALSE,
      keyframe_step |-> 1 ]

\* "if not self.output_path.get(): self.output_path.set(default_output)"
DefaultOutput(f, name) ==
    IF f.output_path = "" THEN [ f EXCEPT !.output_path = name ] ELSE f

load_your_example(f) ==
    DefaultOutput([ f EXCEPT !.animation_type = "circular",
                             !.radius = 10 * Scale,
                             !.center = Vec(0, 0, 0),
                             !.target = Vec(0, 0, -10),
                             !.frames = 180, !.fps = 24 ],
                  "your_example_camera.json")

load_close_orbit(f) ==
    DefaultOutput([ f EXCEPT !.animation_type = "circular",
                             !.radius = 3 * Scale,
                             !.center = Vec(0, 0, 2),
                             !.target = Vec(0, 0, 2),
                             !.frames = 120, !.fps = 24 ],
                  "close_orbit_camera.json")

load_wide_orbit(f) ==
    DefaultOutput([ f EXCEPT !.animation_type = "circular",
                             !.radius = 20 * Scale,
                             !.center = Vec(0, 0, 0),
                             !.target = Vec(0, 0, -5),
                             !.frames = 240, !.fps = 24 ],
                  "wide_orbit_camera.json")

load_rising_spiral(f) ==
    DefaultOutput([ f EXCEPT !.animation_type = "spiral",
                             !.spiral_loops = 2 * Scale,
                             !.start_radius = 5 * Scale,
                             !.end_radius = 15 * Scale,
                             !.start_height = 0,
                             !.end_height = 10 * Scale,
                             !.center = Vec(0, 0, 5),
                             !.target = Vec(0, 0, 5),
                             !.frames = 240, !.fps = 24,
                             !.direction = "counterclockwise" ],
                  "rising_spiral_camera.json")

load_descending_spiral(f) ==
    DefaultOutput([ f EXCEPT !.animation_type = "spiral",
                             !.spiral_loops = 3 * Scale,
                             !.start_radius = 20 * Scale,
                             !.end_radius = 5 * Scale,
                             !.start_height = 15 * Scale,
                             !.end_height = 0,
                             !.center = << 0, 0, (15 * Scale) \div 2 >>,
                             !.target = << 0, 0, (15 * Scale) \div 2 >>,
                             !.frames = 300, !.fps = 24,
                             !.direction = "clockwise" ],
                  "descending_spiral_camera.json")

\* validate_inputs: whether it returns True.
validate_inputs(f) ==
    /\ f.output_path # ""
    /\ f.radius > 0
    /\ f.frames > 0
    /\ f.fps > 0

\* The keyword arguments generate_json_thread passes: the locals center,
\* target and target_distance it prepared, the rest read from the Tk
\* variables f at the call.
ThreadArgs(f, center, target, target_distance) ==
    [ animation_type |-> f.animation_type, direction |-> f.direction,
      center |-> center, target |-> target,
      target_distance |-> target_distance,
      radius |-> f.radius, start_radius |-> f.start_radius,
      end_radius |-> f.end_radius, start_height |-> f.start_height,
      end_height |-> f.end_height, spiral_loops |-> f.spiral_loops,
      frames |-> f.frames, fps |-> f.fps, focal_length |-> f.focal_length,
      sensor_size |-> f.sensor_size, convert_coords |-> f.convert_coords,
      precision |-> f.precision, keyframe_step |-> f.keyframe_step ]

\* What a worker would pass had it read every Tk variable from f at once.
SnapshotArgs(f) ==
    ThreadArgs(f, f.center,
               IF f.use_auto_target THEN None ELSE f.target,
               IF f.use_auto_target THEN Some(f.target_distance) ELSE None)

\* A thread as threading.Thread(target=self.generate_json_thread) starts
\* it; checked is the form validate_inputs saw for its click.
NewWorker(f) ==
    [ pc |-> "read_target", checked |-> f, center |-> None, target |-> None,
      target_distance |-> None, passed |-> None, data |-> None,
      wrote |-> None, stops |-> 0, outcome |-> "" ]

\* The callbacks a thread hands to root.after(0, ...).
Callback(kind, w) == [ kind |-> kind, worker |-> w ]

\* generate_json: the Generate button's command.
ClickGenerate ==
    /\ clicks < MaxClicks
    /\ clicks' = clicks + 1
    /\ IF validate_inputs(form)
       THEN /\ progress' = TRUE
            /\ workers' = Append(workers, NewWorker(form))
            /\ UNCHANGED messages
       ELSE /\ messages' = Append(messages, [ kind |-> "showerror", worker |-> 0,
                                               location |-> "" ])
            /\ UNCHANGED << progress, workers >>
    /\ UNCHANGED << sessionVars, coreVars, cliVars, form, after_queue, edits >>

\* The user's edits of single fields, and the preset buttons.
SetForm(f) ==
    /\ edits < MaxEdits
    /\ edits' = edits + 1
    /\ form' = f
    /\ UNCHANGED << sessionVars, coreVars, cliVars, workers, after_queue, progress,
                    messages, clicks >>

EditFrames == \E n \in { 0, 2 } :
    SetForm([ form EXCEPT !.frames = n ])
EditFps == SetForm([ form EXCEPT !.fps = 0 ])
EditRadius == SetForm([ form EXCEPT !.radius = 0 ])
EditKeyframeStep == SetForm([ form EXCEPT !.keyframe_step = 0 ])
EditOutputPath == \E path \in { "", "a.json" } :
    SetForm([ form EXCEPT !.output_path = path ])
ToggleAutoTarget ==
    SetForm([ form EXCEPT !.use_auto_target = ~form.use_auto_target ])
LoadYourExample == SetForm(load_your_example(form))
LoadCloseOrbit == SetForm(load_close_orbit(form))
LoadWideOrbit == SetForm(load_wide_orbit(form))
LoadRisingSpiral == SetForm(load_rising_spiral(form))
LoadDescendingSpiral == SetForm(load_descending_spiral(form))

\* A thread's step leaves everything but workers, files, after_queue.
WorkerFrame ==
    UNCHANGED << sessionVars, coreVars, argv, output, files0, exit_status, form, progress,
                 messages, clicks, edits >>

\* generate_json_thread, "Prepare parameters": center and target.
WorkerReadTarget(w) ==
    /\ workers[w].pc = "read_target"
    /\ workers' = [ workers EXCEPT
         ![w].center = form.center,
         ![w].target = IF form.use_auto_target THEN None ELSE form.target,
         ![w].pc = "read_distance" ]
    /\ UNCHANGED << files, after_queue >>
    /\ WorkerFrame

\* ... and target_distance, on a second read of use_auto_target.
WorkerReadDistance(w) ==
    /\ workers[w].pc = "read_distance"
    /\ workers' = [ workers EXCEPT
         ![w].target_distance =
             IF form.use_auto_target THEN Some(form.target_distance) ELSE None,
         ![w].pc = "generate" ]
    /\ UNCHANGED << files, after_queue >>
    /\ WorkerFrame

\* The except and finally clauses: showerror and progress.stop scheduled.
WorkerFailed(wk, exc) ==
    [ wk EXCEPT !.pc = "done", !.outcome = "error", !.stops = @ + 1 ]

\* The call of generate_camera_animation.  Its return value is held as the
\* call that made it, [request |-> a]: the dictionary is
\* generate_camera_animation(a, t).data for the t datetime.now() read,
\* which nothing in the GUI looks at.
WorkerGenerate(w) ==
    /\ workers[w].pc = "generate"
    /\ LET wk == workers[w]
           a  == ThreadArgs(form, wk.center, wk.target, wk.target_distance)
       IN  IF RaisesAt(a) = ""
           THEN /\ workers' = [ workers EXCEPT
                       ![w].passed = Some(a),
                       ![w].data = Some([ request |-> a ]),
                       ![w].pc = "save" ]
                /\ UNCHANGED after_queue
           ELSE /\ workers' = [ workers EXCEPT
                       ![w] = WorkerFailed([ wk EXCEPT !.passed = Some(a) ],
                                           "generate") ]
                /\ after_queue' = after_queue \o
                       << Callback("showerror", w), Callback("progress.stop", w) >>
    /\ UNCHANGED files
    /\ WorkerFrame

\* save_json(data, self.output_path.get()) succeeds; the success box and
\* progress.stop are scheduled.
WorkerSave(w) ==
    /\ workers[w].pc = "save"
    /\ form.output_path \in Paths
    /\ files' = [ files EXCEPT ![form.output_path] = JsonFile(Value(workers[w].data)) ]
    /\ workers' = [ workers EXCEPT
         ![w].wrote = Some(form.output_path),
         ![w].pc = "done", ![w].outcome = "success", ![w].stops = @ + 1 ]
    /\ after_queue' = after_queue \o
         << Callback("showinfo", w), Callback("progress.stop", w) >>
    /\ WorkerFrame

\* save_json raises and the thread ends in its except clause, with no
\* finally clause to schedule progress.stop.
WorkerSaveFails_NoFinally(w) ==
    /\ workers[w].pc = "save"
    /\ workers' = [ workers EXCEPT ![w].pc = "done", ![w].outcome = "error" ]
    /\ after_queue' = Append(after_queue, Callback("showerror", w))
    /\ UNCHANGED files
    /\ WorkerFrame

\* save_json raises (an empty or unwritable path): except and finally.
WorkerSaveFails(w) ==
    /\ workers[w].pc = "save"
    /\ workers' = [ workers EXCEPT ![w] = WorkerFailed(workers[w], "save") ]
    /\ after_queue' = after_queue \o
         << Callback("showerror", w), Callback("progress.stop", w) >>
    /\ UNCHANGED files
    /\ WorkerFrame

\* The main loop runs the oldest root.after callback.
RunAfter ==
    /\ after_queue # << >>
    /\ LET cb == Head(after_queue)
       IN  IF cb.kind = "progress.stop"
           THEN /\ progress' = FALSE
                /\ UNCHANGED messages
           ELSE /\ messages' = Append(messages,
                                      [ kind |-> cb.kind, worker |-> cb.worker,
                                        location |-> IF cb.kind = "showinfo"
                                                     THEN form.output_path
                                                     ELSE "" ])
                /\ UNCHANGED progress
    /\ after_queue' = Tail(after_queue)
    /\ UNCHANGED << sessionVars, coreVars, cliVars, form, workers, clicks, edits >>

WorkerStep ==
    \E w \in DOMAIN workers :
        \/ WorkerReadTarget(w)
        \/ WorkerReadDistance(w)
        \/ WorkerGenerate(w)
        \/ WorkerSave(w)
        \/ WorkerSaveFails(w)

FormEdit ==
    \/ EditFrames
    \/ EditFps
    \/ EditRadius
    \/ EditKeyframeStep
    \/ EditOutputPath
    \/ ToggleAutoTarget
    \/ LoadYourExample
    \/ LoadCloseOrbit
    \/ LoadWideOrbit
    \/ LoadRisingSpiral
    \/ LoadDescendingSpiral

\* ----------------------------------------------------------- specification
Init ==
    /\ caller = "none"
    /\ pc = "idle"
    /\ args = None
    /\ positions = Unset
    /\ targets = Unset
    /\ fov = Unset
    /\ poses = Unset
    /\ trace = << >>
    /\ result = None
    /\ error = ""
    /\ argv = None
    /\ output = ""
    /\ files = [ p \in Paths |-> IF p = "a.json" THEN OldFile ELSE Absent ]
    /\ files0 = files
    /\ exit_status = None
    /\ form = load_your_example(InitialForm)
    /\ workers = << >>
    /\ after_queue = << >>
    /\ progress = FALSE
    /\ messages = << >>
    /\ clicks = 0
    /\ edits = 0
    /\ generators = << >>
    /\ calls = << >>

Generate ==
    \/ GenSample
    \/ GenTargets
    \/ GenConvert
    \/ GenRound
    \/ GenFov
    \/ GenPoses
    \/ GenReturn

Next ==
    \/ DirectCall
    \/ CliMain
    \/ Generate
    \/ CliSave
    \/ CliSaveFails
    \/ CliError

Spec == Init /\ [][Next]_vars

\* The GUI session: the main thread's events and the worker threads' steps.
GuiNext ==
    \/ ClickGenerate
    \/ FormEdit
    \/ WorkerStep
    \/ RunAfter

GuiSpec == Init /\ [][GuiNext]_vars

\* The steps of the thread started by the w-th accepted click.
WorkerRun(w) ==
    /\ w \in DOMAIN workers
    /\ \/ WorkerReadTarget(w)
       \/ WorkerReadDistance(w)
       \/ WorkerGenerate(w)
       \/ WorkerSave(w)
       \/ WorkerSaveFails(w)

\* The GUI session in which every started thread keeps being scheduled:
\* each step of generate_json_thread ends, and the interpreter runs every
\* thread that can run.
GuiFairSpec ==
    /\ Init
    /\ [][GuiNext]_vars
    /\ \A w \in 1 .. MaxClicks : WF_vars(WorkerRun(w))


\* The direct caller and the CLI given non-finite floats as well.
NonFiniteCall == DirectCallFrom(NonFiniteRequests)
NonFiniteCli == CliMainFrom(NonFiniteRequests)

NonFiniteNext ==
    \/ NonFiniteCall
    \/ NonFiniteCli
    \/ Generate
    \/ CliSave
    \/ CliSaveFails
    \/ CliError

NonFiniteSpec == Init /\ [][NonFiniteNext]_vars

\* A caller that passes well-formed requests only.
ValidCall == DirectCallFrom(ValidRequests)

ValidNext ==
    \/ ValidCall
    \/ Generate

ValidSpec == Init /\ [][ValidNext]_vars

\* A caller that passes every combination of fixed target and target
\* distance, with two different fixed targets next to a distance.
TargetingRequests ==
    { [ animation_type |-> sh.animation_type, direction |-> dir,
        center |-> c, target |-> ts.target,
        target_distance |-> ts.target_distance,
        radius |-> sh.radius, start_radius |-> sh.start_radius,
        end_radius |-> sh.end_radius, start_height |-> sh.start_height,
        end_height |-> sh.end_height, spiral_loops |-> sh.spiral_loops,
        frames |-> n, fps |-> 24, focal_length |-> 35 * Scale,
        sensor_size |-> 32 * Scale, convert_coords |-> cc, precision |-> pr,
        keyframe_step |-> st ] :
      sh \in { x \in ValidShapes : x.radius \in { 0, 10 * Scale }
                                    /\ x.start_radius = 5 * Scale },
      dir \in Directions, c \in Centers,
      ts \in TargetSpecs
               \cup { [ target |-> Vec(5, 5, 5),
                        target_distance |-> Some(5 * Scale) ] },
      n \in FrameCounts, cc \in BOOLEAN, pr \in Precisions,
      st \in 1 .. MaxStep }

TargetingCall == DirectCallFrom(TargetingRequests)

TargetingNext ==
    \/ TargetingCall
    \/ Generate

TargetingSpec == Init /\ [][TargetingNext]_vars

\* ---------------------------------------------------------- repeated calls
\* Largest number of generator instances, and of calls made on them.
MaxGenerators == 2
MaxCalls == 2

\* __init__: self.poses = [], self.metadata = {}
InitFields == [ poses |-> << >>, metadata |-> << >> ]

\* The requests the callers of one session make.
SessionRequests ==
    { r \in ValidRequests :
        /\ r.frames = 2
        /\ r.center = Vec(1, 2, 3)
        /\ r.direction = "clockwise"
        /\ r.convert_coords
        /\ r.precision = 1
        /\ r.keyframe_step = 1
        /\ r.radius = 10 * Scale
        /\ r.start_radius = 5 * Scale
        /\ IsNone(r.target)
        /\ r.target_distance =
              (IF r.animation_type = "spiral" THEN Some(5 * Scale) ELSE None) }

\* The frame of a call of generate_camera_animation on the instance g:
\* the argument objects the caller passed (given), the parameters bound to
\* them (args) and the locals.
NewFrame(g, a) ==
    [ self |-> g, given |-> a, args |-> a, pc |-> "sample",
      positions |-> Unset, targets |-> Unset, fov |-> Unset, poses |-> Unset,
      result |-> None, error |-> "" ]

\* The frame left by an exception.
FrameRaise(f, exc) ==
    [ f EXCEPT !.pc = "raised", !.error = exc, !.positions = Unset,
               !.targets = Unset, !.fov = Unset, !.poses = Unset ]

\* The next stage of the call in frame f; datetime.now() reads timestamp.
StepFrame(f, timestamp) ==
    LET a == f.args
    IN  CASE f.pc = "sample" ->
               IF a.animation_type \in { "circular", "spiral" }
               THEN [ f EXCEPT !.positions = SamplePositions(a), !.pc = "targets" ]
               ELSE FrameRaise(f, "ValueError")
          [] f.pc = "targets" ->
               [ f EXCEPT !.targets = ResolveTargets(f.positions, a.center, a.target,
                                                     a.target_distance, a.frames),
                          !.pc = "convert" ]
          [] f.pc = "convert" ->
               [ f EXCEPT !.positions = ConvertStage(a, f.positions, f.targets)[1],
                          !.targets = ConvertStage(a, f.positions, f.targets)[2],
                          !.pc = "round" ]
          [] f.pc = "round" ->
               [ f EXCEPT !.positions = RoundStage(a, f.positions),
                          !.targets = RoundStage(a, f.targets),
                          !.pc = "fov" ]
          [] f.pc = "fov" ->
               IF a.focal_length = 0
               THEN FrameRaise(f, "ZeroDivisionError")
               ELSE [ f EXCEPT !.fov = Some(focal_length_to_fov(a.focal_length,
                                                                a.sensor_size)),
                               !.pc = "poses" ]
          [] f.pc = "poses" ->
               LET loop == BuildPoses(f.positions, f.targets, a.keyframe_step,
                                      a.fps, a.focal_length, Value(f.fov))
               IN  IF loop.ok
                   THEN [ f EXCEPT !.poses = loop.poses, !.pc = "assemble" ]
                   ELSE FrameRaise(f, "ZeroDivisionError")
          [] OTHER ->
               [ f EXCEPT !.result = Some(AssembleRecord(a, f.poses, timestamp)),
                          !.pc = "returned", !.positions = Unset,
                          !.targets = Unset, !.fov = Unset, !.poses = Unset ]

\* generator = StandaloneCameraGenerator()
Construct ==
    /\ Len(generators) < MaxGenerators
    /\ generators' = Append(generators, InitFields)
    /\ UNCHANGED << coreVars, cliVars, guiVars, calls >>

\* A thread calls generate_camera_animation on an instance it holds.
CallEnter ==
    /\ Len(calls) < MaxCalls
    /\ \E g \in DOMAIN generators, a \in SessionRequests :
         calls' = Append(calls, NewFrame(g, a))
    /\ UNCHANGED << coreVars, cliVars, guiVars, generators >>

\* The call keeping its poses in self.poses: it appends to the instance's
\* list and returns that list.
CallStep_OnInstance(c) ==
    /\ calls[c].pc \notin { "returned", "raised" }
    /\ \E timestamp \in Timestamps :
         LET f  == calls[c]
             nf == StepFrame(f, timestamp)
         IN  IF f.pc = "poses" /\ nf.pc = "assemble"
             THEN /\ generators' =
                       [ generators EXCEPT ![f.self].poses = @ \o nf.poses ]
                  /\ calls' = [ calls EXCEPT ![c] =
                       [ nf EXCEPT !.poses = generators[f.self].poses \o nf.poses ] ]
             ELSE /\ calls' = [ calls EXCEPT ![c] = nf ]
                  /\ UNCHANGED generators
    /\ UNCHANGED << coreVars, cliVars, guiVars >>

\* One stage of the call c; the other calls stand where they are.
CallStep(c) ==
    /\ calls[c].pc \notin { "returned", "raised" }
    /\ \E timestamp \in Timestamps :
         calls' = [ calls EXCEPT ![c] = StepFrame(calls[c], timestamp) ]
    /\ UNCHANGED << coreVars, cliVars, guiVars, generators >>

SessionNext ==
    \/ Construct
    \/ CallEnter
    \/ \E c \in DOMAIN calls : CallStep(c)

SessionSpec == Init /\ [][SessionNext]_vars

\* ------------------------------------------------------------------ claims
\* The stages of one generation, in the order the function runs them.
AllStages == << "sample", "targets", "convert", "round", "fov", "poses",
                "assemble" >>

\* The frame indices of the poses of a returned record.
EmittedIndices(rec) == { rec.poses[k].frame - 1 : k \in DOMAIN rec.poses }

\* C1: for N >= 1 frames and keyframe_step >= 1, a pose is emitted for frame
\* index i (0 <= i < N) if and only if i mod keyframe_step = 0 or i = N-1,
\* each such index once: the last frame is emitted even off the stride and no
\* other off-stride frame is.
C1_KeyframeFilter ==
    (pc = "returned" /\ Value(args).frames >= 1 /\ Value(args).keyframe_step >= 1)
    => LET N    == Value(args).frames
           st   == Value(args).keyframe_step
           want == { i \in 0 .. N - 1 : i % st = 0 \/ i = N - 1 }
       IN  /\ EmittedIndices(Value(result)) = want
           /\ Len(Value(result).poses) = Cardinality(want)

\* C1's case: 5 frames at stride 3 return the indices 0, 3 and the
\* off-stride last index 4.
C1_Witness ==
    /\ pc = "returned"
    /\ Value(args).frames = 5
    /\ Value(args).keyframe_step = 3
    /\ EmittedIndices(Value(result)) = { 0, 3, 4 }

\* C2 (as claimed): a request with frames = 0 or radius = 0 fails with a
\* configuration error: it never returns a record and no file is written.
C2_ZeroFramesOrRadiusFails ==
    (~IsNone(args) /\ (Value(args).frames = 0 \/ Value(args).radius = 0))
    => (pc # "returned" /\ IsNone(result) /\ files = files0)

\* C3 (as claimed): a request with fps <= 0 is rejected before any path
\* sampling: no stage of the generation runs and no record is returned.
C3_NonPositiveFpsRejectedFirst ==
    (~IsNone(args) /\ Value(args).fps <= 0)
    => (trace = << >> /\ pc \in { "sample", "raised" } /\ IsNone(result))

\* C4: with an animation_type that is neither "circular" nor "spiral" the
\* call raises ValueError before any position is sampled, any target is
\* resolved or any pose is built, and returns no record.
C4_UnknownTypeFailsFast ==
    (~IsNone(args) /\ Value(args).animation_type \notin { "circular", "spiral" })
    => /\ pc \in { "sample", "raised" }
       /\ pc = "raised" => error = "ValueError"
       /\ trace = << >>
       /\ positions = Unset /\ targets = Unset /\ poses = Unset
       /\ IsNone(result)

\* C4's case: a call with the type "linear" has raised ValueError.
C4_Witness ==
    /\ pc = "raised"
    /\ error = "ValueError"
    /\ Value(args).animation_type = "linear"
    /\ Value(args).frames >= 1

\* C5: in the CLI the output file changes only after
\* generate_camera_animation has returned a complete record, a written JSON
\* file holds exactly that record, and when generation raises no file is
\* created or modified and the process exits with status 1.
C5_CliAtomic ==
    caller = "cli"
    => /\ files # files0
          => (pc = "returned" /\ ~IsNone(result) /\ trace = AllStages)
       /\ \A p \in Paths :
            files[p].kind = "json" => (p = output /\ files[p].data = result)
       /\ pc = "raised"
          => /\ files = files0
             /\ \/ exit_status = Some(1)
                \/ IsNone(exit_status) /\ ENABLED CliError

\* C5's case: generation raised in the CLI and the process has exited.
C5_Witness ==
    /\ caller = "cli"
    /\ pc = "raised"
    /\ error = "ZeroDivisionError"
    /\ exit_status = Some(1)
    /\ files = files0

\* C6 (as claimed): what a GUI worker passes to generate_camera_animation,
\* and the path it writes, are the values validate_inputs checked for the
\* click that started it.
C6_WorkerOwnsCheckedCopy ==
    \A w \in DOMAIN workers :
        /\ ~IsNone(workers[w].passed)
           => Value(workers[w].passed) = SnapshotArgs(workers[w].checked)
        /\ ~IsNone(workers[w].wrote)
           => Value(workers[w].wrote) = workers[w].checked.output_path

\* A point as a pose carries it: converted if asked, then rounded.
Emitted(a, p) ==
    round_tuple(IF a.convert_coords THEN << p[1], p[3], -p[2] >> ELSE p,
                a.precision)

\* C7 (as claimed): when the request names neither a fixed target nor a
\* target distance, every pose's target is the path centre, for a direct
\* call and for the CLI alike.
C7_DefaultTargetIsCenter ==
    pc = "returned"
    => LET req == IF caller = "cli" THEN Value(argv) ELSE Value(args)
       IN  (IsNone(req.target) /\ IsNone(req.target_distance))
           => \A k \in DOMAIN Value(result).poses :
                Value(result).poses[k].target
                    = Emitted(Value(args), Value(args).center)

\* Vector helpers for the geometry of the claims.
Sub(u, v) == << u[1] - v[1], u[2] - v[2], u[3] - v[3] >>
Dot(u, v) == u[1] * v[1] + u[2] * v[2] + u[3] * v[3]
Cross(u, v) ==
    << u[2] * v[3] - u[3] * v[2],
       u[3] * v[1] - u[1] * v[3],
       u[1] * v[2] - u[2] * v[1] >>

\* The state in which the targets are resolved and nothing is converted
\* yet, for a request that asks for distance-based targets.
DistanceTargetsResolved ==
    pc = "convert" /\ ~IsNone(Value(args).target_distance)

\* C8 (as claimed): for every sampled position P other than the centre C
\* and every target distance d, the target is exactly d away from P and
\* lies on the ray from P toward C.
C8_TargetExactlyAtDistance ==
    DistanceTargetsResolved
    => \A k \in DOMAIN positions :
         LET P == positions[k]
             T == targets[k]
             C == Value(args).center
             d == Value(Value(args).target_distance)
         IN  P # C
             => /\ DirectionLength(P, T) = d
                /\ Cross(Sub(T, P), Sub(C, P)) = << 0, 0, 0 >>
                /\ Dot(Sub(T, P), Sub(C, P)) >= 0

\* The rounding tolerance of a target at distance d, in units of the last
\* place: the square root, the division and the product each round once,
\* and the division's error is scaled by the distance.
RoundingTolerance(d) == Abs(d) \div Scale + 2

\* C8 (amended): for every sampled position P other than the centre C, the
\* target is |d| away from P to within rounding tolerance and on the line
\* through P and C to within rounding tolerance, on the side of C when
\* d > 0 and on the far side when d < 0.
C8_TargetAtDistanceWithinRounding ==
    DistanceTargetsResolved
    => \A k \in DOMAIN positions :
         LET P   == positions[k]
             T   == targets[k]
             C   == Value(args).center
             d   == Value(Value(args).target_distance)
             L   == DirectionLength(P, C)
             cr  == Cross(Sub(T, P), Sub(C, P))
             tol == RoundingTolerance(d)
         IN  P # C
             => /\ Abs(DirectionLength(P, T) - Abs(d)) <= tol
                /\ \A j \in 1 .. 3 : Abs(cr[j]) <= tol * L
                /\ d > 0 => Dot(Sub(T, P), Sub(C, P)) > 0
                /\ d < 0 => Dot(Sub(T, P), Sub(C, P)) < 0

\* C8's case: distance targets resolved for an orbit of several frames
\* off the centre, with a positive distance.
C8_Witness ==
    /\ DistanceTargetsResolved
    /\ Value(Value(args).target_distance) > 0
    /\ Len(positions) >= 3
    /\ \A k \in DOMAIN positions : positions[k] # Value(args).center
    /\ \E k \in DOMAIN positions : targets[k] # positions[k]

\* C9: in distance-based targeting a sampled position equal to the centre
\* gets the centre as its target; the target stage raises nothing and
\* yields one target for every frame.
C9_DegenerateFallsBackToCenter ==
    /\ DistanceTargetsResolved
       => /\ Len(targets) = Len(positions)
          /\ \A k \in DOMAIN positions :
               positions[k] = Value(args).center
               => targets[k] = Value(args).center
    /\ pc = "raised" => trace # << "sample" >>

\* C9's case: a spiral that ends on its centre, away from the origin: the
\* last frame is degenerate, the earlier ones are not.
C9_Witness ==
    /\ DistanceTargetsResolved
    /\ Value(args).center # << 0, 0, 0 >>
    /\ Len(positions) >= 2
    /\ positions[Len(positions)] = Value(args).center
    /\ targets[Len(positions)] = Value(args).center
    /\ positions[1] # Value(args).center

\* (x, y, z) -> (x, z, -y) on a whole list, written out.
Remapped(pts) == [ k \in 1 .. Len(pts) |-> << pts[k][1], pts[k][3], -pts[k][2] >> ]
\* (x, y, z) -> (x, -y, -z) on a whole list.
HalfTurned(pts) == [ k \in 1 .. Len(pts) |-> << pts[k][1], -pts[k][2], -pts[k][3] >> ]

\* convert_coordinates applied n times to a pair of lists.
RECURSIVE ConvertTimes(_, _)
ConvertTimes(n, pair) ==
    IF n = 0 THEN pair
    ELSE ConvertTimes(n - 1, convert_coordinates(pair[1], pair[2]))

\* C10: the conversion stage maps every position and every target
\* (x, y, z) -> (x, z, -y) when convert_coords is set and leaves every one
\* unchanged otherwise, count and order kept; convert_coordinates applied
\* twice gives (x, -y, -z), which differs from the original unless
\* y = z = 0, and applied four times gives the original back.
C10_ConversionMapping ==
    [][ pc = "convert"
        => LET raw == << positions, targets >>
           IN  /\ positions' = IF Value(args).convert_coords
                               THEN Remapped(positions) ELSE positions
               /\ targets' = IF Value(args).convert_coords
                             THEN Remapped(targets) ELSE targets
               /\ ConvertTimes(1, raw) = << Remapped(positions), Remapped(targets) >>
               /\ ConvertTimes(2, raw) = << HalfTurned(positions), HalfTurned(targets) >>
               /\ \A k \in DOMAIN positions :
                    (ConvertTimes(2, raw)[1][k] = positions[k])
                        <=> (positions[k][2] = 0 /\ positions[k][3] = 0)
               /\ ConvertTimes(4, raw) = raw ]_vars

\* C10's case: a converted orbit of several frames, each position the
\* remapped sample, with a point off the x axis, which converting twice
\* would not give back.
C10_Witness ==
    /\ pc = "round"
    /\ Value(args).convert_coords
    /\ Value(args).animation_type = "circular"
    /\ Len(positions) >= 3
    /\ positions = Remapped(SamplePositions(Value(args)))
    /\ \E k \in DOMAIN positions : positions[k][3] # 0

\* Squared length of a vector and squared distance of two points.
SqLen(u) == Dot(u, u)
SqDist(u, v) == SqLen(Sub(u, v))

\* C11: the conversion step alters no magnitude: for every position/target
\* pair the squared length of the position, the squared length of the
\* target and the squared distance between the two are the same before and
\* after convert_coordinates.
C11_ConversionKeepsMagnitudes ==
    [][ (pc = "convert" /\ Value(args).convert_coords)
        => /\ Len(positions') = Len(positions)
           /\ Len(targets') = Len(targets)
           /\ \A k \in DOMAIN positions :
                /\ SqLen(positions'[k]) = SqLen(positions[k])
                /\ SqLen(targets'[k]) = SqLen(targets[k])
                /\ SqDist(positions'[k], targets'[k])
                       = SqDist(positions[k], targets[k]) ]_vars

\* C11's case: converted positions with all three components non-zero,
\* each with a target away from it and away from the origin.
C11_Witness ==
    /\ pc = "round"
    /\ Value(args).convert_coords
    /\ Len(positions) >= 2
    /\ \E k \in DOMAIN positions :
         /\ \A j \in 1 .. 3 : positions[k][j] # 0
         /\ targets[k] # positions[k]
         /\ SqLen(targets[k]) > 0
         /\ Abs(positions[k][2]) # Abs(positions[k][3])

\* A coordinate that round(x, precision) leaves as it is, and a point of
\* such coordinates.
IsRounded(x, precision) == PyRound(x, precision) = x
IsRoundedPoint(p, precision) == \A j \in DOMAIN p : IsRounded(p[j], precision)

\* C12: the stages of one generation run in the order sample, targets,
\* convert, round, (fov,) poses, assemble; the conversion step rounds
\* nothing, the rounding step runs after it and rounds every coordinate to
\* `precision` digits, and every coordinate of every pose built and
\* returned is such a rounded value, taken from the rounded lists.
C12_RoundAfterConversion ==
    [][ /\ trace' # trace
           => \/ trace' = << >>
              \/ trace' = SubSeq(AllStages, 1, Len(trace) + 1)
        /\ pc = "convert"
           => /\ positions' \in { positions, Remapped(positions) }
              /\ targets' \in { targets, Remapped(targets) }
        /\ pc = "round"
           => /\ trace = << "sample", "targets", "convert" >>
              /\ positions' = [ k \in DOMAIN positions |->
                                  round_tuple(positions[k], Value(args).precision) ]
              /\ targets' = [ k \in DOMAIN targets |->
                                round_tuple(targets[k], Value(args).precision) ]
        /\ (pc = "poses" /\ pc' = "assemble")
           => \A k \in DOMAIN poses' :
                /\ poses'[k].position = positions[poses'[k].frame]
                /\ poses'[k].target = targets[poses'[k].frame]
                /\ IsRoundedPoint(poses'[k].position, Value(args).precision)
                /\ IsRoundedPoint(poses'[k].target, Value(args).precision)
        /\ (pc = "assemble" /\ pc' = "returned")
           => Value(result').poses = poses ]_vars

\* C12's case: a converted spiral returned at precision 1 whose poses carry
\* the rounded form of a coordinate that had more digits before rounding.
C12_Witness ==
    /\ pc = "returned"
    /\ trace = AllStages
    /\ Value(args).precision = 1
    /\ Value(args).convert_coords
    /\ Value(args).animation_type = "spiral"
    /\ Value(args).keyframe_step = 1
    /\ Len(Value(result).poses) >= 3
    /\ LET a   == Value(args)
           raw == ConvertStage(a, SamplePositions(a), SamplePositions(a))[1]
       IN  \E k \in DOMAIN raw :
             /\ ~IsRoundedPoint(raw[k], a.precision)
             /\ Value(result).poses[k].position = round_tuple(raw[k], a.precision)

\* A point with all coordinates finite, and a list of such points.
IsFinitePoint(p) == \A j \in DOMAIN p : IsFinite(p[j])
AllFinite(pts) == \A k \in DOMAIN pts : IsFinitePoint(pts[k])

\* C13 (as claimed): a non-finite position or target coordinate is never
\* rounded, never put in a pose and never returned: past the rounding
\* stage every coordinate of the call is finite, and so is every pose
\* coordinate of a returned record and of a written file.
C13_NonFiniteNeverEmitted ==
    /\ pc \in { "fov", "poses", "assemble" }
       => AllFinite(positions) /\ AllFinite(targets)
    /\ pc = "returned"
       => \A k \in DOMAIN Value(result).poses :
            /\ IsFinitePoint(Value(result).poses[k].position)
            /\ IsFinitePoint(Value(result).poses[k].target)
    /\ \A p \in Paths :
         files[p].kind = "json"
         => \A k \in DOMAIN Value(files[p].data).poses :
              /\ IsFinitePoint(Value(files[p].data).poses[k].position)
              /\ IsFinitePoint(Value(files[p].data).poses[k].target)

\* frame_num / fps as a float: the quotient rounded once.
FrameTime(frame_num, fps) == RDiv(frame_num * Scale, fps)

\* Frame numbers 1-based within the N frames, times frame / fps, frames
\* strictly increasing.
WellNumbered(ps, N, fps) ==
    /\ \A k \in DOMAIN ps :
         /\ ps[k].frame \in 1 .. N
         /\ ps[k].time = FrameTime(ps[k].frame, fps)
    /\ \A k \in 1 .. Len(ps) - 1 : ps[k].frame < ps[k + 1].frame

\* C14: the pose built for frame index i carries frame = i + 1 and
\* time = (i + 1) / fps, with the position and target of index i; the poses
\* array, as built and as returned, is in strictly increasing frame order
\* with no frame number repeated.
C14_FrameNumbersAndTimes ==
    /\ pc = "assemble"
       => /\ WellNumbered(poses, Len(positions), Value(args).fps)
          /\ \A k \in DOMAIN poses :
               /\ poses[k].position = positions[poses[k].frame]
               /\ poses[k].target = targets[poses[k].frame]
    /\ pc = "returned"
       => WellNumbered(Value(result).poses, Value(args).frames, Value(args).fps)

\* C14's case: 5 frames at stride 2 and 24 fps return frames 1, 3, 5 at
\* times 1/24, 3/24 and 5/24.
C14_Witness ==
    /\ pc = "returned"
    /\ Value(args).frames = 5
    /\ Value(args).keyframe_step = 2
    /\ Value(args).fps = 24
    /\ [ k \in DOMAIN Value(result).poses |-> Value(result).poses[k].frame ]
           = << 1, 3, 5 >>
    /\ [ k \in DOMAIN Value(result).poses |-> Value(result).poses[k].time ]
           = << FrameTime(1, 24), FrameTime(3, 24), FrameTime(5, 24) >>
    /\ FrameTime(5, 24) > FrameTime(3, 24)

\* The state in which a spiral of N >= 1 frames has just been sampled.
SpiralSampled ==
    /\ pc = "targets"
    /\ Value(args).animation_type = "spiral"
    /\ Value(args).frames >= 1

\* C15: a spiral of N > 1 frames starts at radius start_radius and height
\* offset start_height (frame 0, angle 0) and ends at radius end_radius and
\* height offset end_height (frame N-1), radius and height being linear in
\* i / (N-1) in between; with N = 1 the one sample is the start of the path
\* and sampling raises nothing.  (Float + and - are exact in this number
\* model, so the end values are met exactly; in binary floating point
\* start + (end - start) meets them up to one rounding.)
C15_SpiralEndpoints ==
    /\ SpiralSampled
       => LET a  == Value(args)
              N  == a.frames
              c  == a.center
              T(i) == IF N > 1 THEN RDiv(i * Scale, N - 1) ELSE 0
              R(i) == a.start_radius + RDiv((a.end_radius - a.start_radius) * T(i), Scale)
              H(i) == a.start_height + RDiv((a.end_height - a.start_height) * T(i), Scale)
              A(i) == SpiralAngle(i, N, a.spiral_loops, a.direction)
          IN  /\ Len(positions) = N
              /\ positions[1] = << c[1] + a.start_radius, c[2],
                                   c[3] + a.start_height >>
              /\ N > 1 => /\ R(N - 1) = a.end_radius
                          /\ H(N - 1) = a.end_height
                          /\ positions[N][3] = c[3] + a.end_height
              /\ \A k \in 1 .. N :
                   positions[k] = << c[1] + FMul(R(k - 1), Cos(A(k - 1))),
                                     c[2] + FMul(R(k - 1), Sin(A(k - 1))),
                                     c[3] + H(k - 1) >>
    /\ (pc = "raised" /\ Value(args).animation_type = "spiral")
       => trace # << >>

\* C15's case: a spiral of 5 frames about an off-origin centre, from
\* radius 5 at height 0 to radius 15 at height 10 after two full loops,
\* half way up in the middle frame.
C15_Witness ==
    /\ SpiralSampled
    /\ Value(args).frames = 5
    /\ Value(args).center = Vec(1, 2, 3)
    /\ positions[1] = Vec(1 + 5, 2, 3)
    /\ positions[5] = Vec(1 + 15, 2, 3 + 10)
    /\ positions[3][3] = (3 + 5) * Scale

\* The state in which a circular path has just been sampled.
CircularSampled ==
    pc = "targets" /\ Value(args).animation_type = "circular"

\* C16: calculate_circular_path returns exactly N positions, the k-th the
\* sample of frame k-1, and the height (third) component of every one is
\* the centre's height, whatever the radius, the direction and N.
C16_CircularIsPlanar ==
    CircularSampled
    => LET a == Value(args)
       IN  /\ Len(positions) = a.frames
           /\ \A k \in DOMAIN positions :
                LET angle == CircularAngle(k - 1, a.frames, a.direction)
                IN  /\ positions[k][3] = a.center[3]
                    /\ positions[k][1] = a.center[1] + FMul(a.radius, Cos(angle))
                    /\ positions[k][2] = a.center[2] + FMul(a.radius, Sin(angle))

\* C16's case: an orbit of 5 frames and radius 10 about (1, 2, 3): five
\* different positions, all at height 3.
C16_Witness ==
    /\ CircularSampled
    /\ Value(args).frames = 5
    /\ Value(args).radius = 10 * Scale
    /\ Value(args).center = Vec(1, 2, 3)
    /\ Cardinality({ positions[k] : k \in DOMAIN positions }) = 5
    /\ \A k \in DOMAIN positions : positions[k][3] = 3 * Scale

\* The angle of frame i of the path the arguments a ask for, were its
\* direction dir.
FrameAngle(a, i, dir) ==
    IF a.animation_type = "circular"
    THEN CircularAngle(i, a.frames, dir)
    ELSE SpiralAngle(i, a.frames, a.spiral_loops, dir)

\* The radius of frame i of that path.
FrameRadius(a, i) ==
    IF a.animation_type = "circular" THEN a.radius
    ELSE Lerp(a.start_radius, a.end_radius, SpiralT(i, a.frames))

\* C17: for the same other parameters the clockwise and the
\* counterclockwise angle of every frame are exact negations of each
\* other, for the circular and for the spiral sampler, and frame 0 has
\* angle 0 in both; the sampled positions are those of the request's own
\* direction, so that the other direction mirrors every one in y.
C17_DirectionsNegate ==
    (pc = "targets" /\ Value(args).frames >= 1)
    => LET a == Value(args)
       IN  /\ FrameAngle(a, 0, "clockwise") = 0
           /\ FrameAngle(a, 0, "counterclockwise") = 0
           /\ \A i \in 0 .. a.frames - 1 :
                /\ FrameAngle(a, i, "clockwise")
                       = -FrameAngle(a, i, "counterclockwise")
                /\ positions[i + 1][1] - a.center[1]
                       = FMul(FrameRadius(a, i), Cos(FrameAngle(a, i, a.direction)))
                /\ positions[i + 1][2] - a.center[2]
                       = FMul(FrameRadius(a, i), Sin(FrameAngle(a, i, a.direction)))
                /\ a.center[2] - positions[i + 1][2]
                       = FMul(FrameRadius(a, i), Sin(-FrameAngle(a, i, a.direction)))

\* C17's case: a clockwise spiral of 4 frames whose second frame has a
\* negative angle, the counterclockwise one the same angle positive, and a
\* position off the x axis of the centre.
C17_Witness ==
    /\ pc = "targets"
    /\ Value(args).animation_type = "spiral"
    /\ Value(args).direction = "clockwise"
    /\ Value(args).frames = 4
    /\ FrameAngle(Value(args), 1, "clockwise") < 0
    /\ FrameAngle(Value(args), 1, "counterclockwise") > 0
    /\ positions[2][2] # Value(args).center[2]

\* The raw (unconverted, unrounded) position of frame index i of the
\* request a, and the raw target that goes with the raw position p.
SampleAt(a, i) ==
    IF a.animation_type = "circular"
    THEN CircularPosition(a.center, a.radius, i, a.frames, a.direction)
    ELSE SpiralPosition(a.center, a.start_radius, a.end_radius, a.start_height, a.end_height, a.spiral_loops, i, a.frames, a.direction)

TargetFor(a, p) ==
    IF ~IsNone(a.target_distance)
    THEN calculate_target_from_distance(p, a.center, Value(a.target_distance))
    ELSE IF ~IsNone(a.target) THEN a.target
    ELSE a.center

\* (x, y, z) -> (x, z, -y) on one point, written out.
RemappedPoint(p) == << p[1], p[3], -p[2] >>

\* C18: in every returned record the tag coordinate_system is "SUPERSPLAT"
\* or "BLENDER", and the coordinates of every pose agree with it: under
\* "SUPERSPLAT" each position and target is the rounded (x, z, -y) image of
\* the raw point of its frame, under "BLENDER" the rounded raw point itself.
C18_TagMatchesCoordinates ==
    pc = "returned"
    => LET a   == Value(args)
           rec == Value(result)
       IN  /\ rec.coordinate_system \in { "SUPERSPLAT", "BLENDER" }
           /\ \A k \in DOMAIN rec.poses :
                LET p == SampleAt(a, rec.poses[k].frame - 1)
                    t == TargetFor(a, p)
                IN  IF rec.coordinate_system = "SUPERSPLAT"
                    THEN /\ rec.poses[k].position
                                = round_tuple(RemappedPoint(p), a.precision)
                         /\ rec.poses[k].target
                                = round_tuple(RemappedPoint(t), a.precision)
                    ELSE /\ rec.poses[k].position = round_tuple(p, a.precision)
                         /\ rec.poses[k].target = round_tuple(t, a.precision)

\* C18's case: a record tagged "BLENDER" with a pose whose position and
\* target are unconverted and would each have been changed by the
\* conversion.
C18_Witness ==
    /\ pc = "returned"
    /\ ~Value(args).convert_coords
    /\ Value(result).coordinate_system = "BLENDER"
    /\ Len(Value(result).poses) >= 2
    /\ \E k \in DOMAIN Value(result).poses :
         LET pose == Value(result).poses[k]
         IN  /\ pose.position # RemappedPoint(pose.position)
             /\ pose.target # RemappedPoint(pose.target)
             /\ pose.position
                    = round_tuple(SampleAt(Value(args), pose.frame - 1),
                                  Value(args).precision)

\* The keys every record carries, and the keys of the spiral shape.
FixedKeys ==
    { "camera_name", "frame_rate", "frame_start", "frame_end", "frame_step",
      "coordinate_system", "total_frames", "keyframes_generated",
      "keyframe_step", "animation_type", "direction", "export_timestamp",
      "coordinate_precision", "center", "poses", "generator" }

SpiralKeys ==
    { "spiral_loops", "start_radius", "end_radius", "start_height", "end_height" }

\* C19: the key set of a returned record follows its animation type: a
\* circular record has radius and none of the five spiral keys, a spiral
\* record has all five and no radius; both have every fixed metadata key
\* and generator, and beyond those only the target keys.
C19_KeySetByType ==
    pc = "returned"
    => LET rec  == Value(result)
           keys == DOMAIN rec
       IN  /\ FixedKeys \subseteq keys
           /\ keys \subseteq FixedKeys \cup SpiralKeys
                     \cup { "radius", "target", "target_distance" }
           /\ rec.animation_type \in { "circular", "spiral" }
           /\ rec.animation_type = Value(args).animation_type
           /\ rec.animation_type = "circular"
              <=> ("radius" \in keys /\ keys \cap SpiralKeys = { })
           /\ rec.animation_type = "spiral"
              <=> (SpiralKeys \subseteq keys /\ "radius" \notin keys)

\* C19's case: a spiral record returned with the five spiral keys and
\* their values, and without radius.
C19_Witness ==
    /\ pc = "returned"
    /\ Value(args).animation_type = "spiral"
    /\ SpiralKeys \subseteq DOMAIN Value(result)
    /\ "radius" \notin DOMAIN Value(result)
    /\ Value(result).end_radius = Value(args).end_radius
    /\ Value(result).spiral_loops = Value(args).spiral_loops
    /\ Value(result).generator = "Standalone Camera JSON Generator v1.0"

\* ceil(n / d) for n >= 0 and d >= 1.
Ceil(n, d) == (n + d - 1) \div d

\* C20: in every returned record keyframes_generated is the number of
\* poses and total_frames = frame_end = N; with keyframe_step = 1 that
\* number is N, and for a step >= 1 and N >= 1 it is ceil(N / step), plus
\* one when (N-1) mod step # 0.
C20_KeyframeCount ==
    pc = "returned"
    => LET rec  == Value(result)
           N    == Value(args).frames
           step == Value(args).keyframe_step
       IN  /\ rec.keyframes_generated = Len(rec.poses)
           /\ rec.total_frames = N
           /\ rec.frame_end = N
           /\ step = 1 => rec.keyframes_generated = N
           /\ (step >= 1 /\ N >= 1)
              => rec.keyframes_generated
                     = Ceil(N, step) + (IF (N - 1) % step # 0 THEN 1 ELSE 0)

\* C20's case: 4 frames at stride 2 return 3 keyframes, ceil(4 / 2) and
\* one more for the off-stride last frame, out of 4 total frames.
C20_Witness ==
    /\ pc = "returned"
    /\ Value(args).frames = 4
    /\ Value(args).keyframe_step = 2
    /\ Value(result).keyframes_generated = 3
    /\ Len(Value(result).poses) = 3
    /\ Value(result).total_frames = 4

\* A record without its export_timestamp.
WithoutTimestamp(rec) ==
    [ k \in DOMAIN rec \ { "export_timestamp" } |-> rec[k] ]

\* C21: the core holds no state across requests: the fields of every
\* generator instance stay as __init__ left them, no call changes its
\* arguments, and any two calls that returned for equal arguments, on the
\* same instance or on two, however their stages interleaved, returned
\* records equal in every field but export_timestamp.
C21_CoreIsStateless ==
    /\ \A g \in DOMAIN generators : generators[g] = InitFields
    /\ \A c \in DOMAIN calls : calls[c].args = calls[c].given
    /\ \A c, d \in DOMAIN calls :
         (/\ calls[c].pc = "returned"
          /\ calls[d].pc = "returned"
          /\ calls[c].given = calls[d].given)
         => WithoutTimestamp(Value(calls[c].result))
                = WithoutTimestamp(Value(calls[d].result))

\* C21's case: two calls with equal arguments on the same instance have
\* both returned, at different times, records of two poses each.
C21_Witness ==
    /\ Len(calls) = 2
    /\ calls[1].self = calls[2].self
    /\ calls[1].given = calls[2].given
    /\ calls[1].pc = "returned"
    /\ calls[2].pc = "returned"
    /\ Value(calls[1].result).export_timestamp
           # Value(calls[2].result).export_timestamp
    /\ Len(Value(calls[1].result).poses) = 2
    /\ ~IsNone(calls[1].given.target_distance)

\* Both a fixed target and a target distance were supplied.
BothSupplied(a) == ~IsNone(a.target) /\ ~IsNone(a.target_distance)

\* C22: when both a fixed target and a target distance are supplied the
\* distance wins: every pose target is the one derived from its frame's
\* position, the centre and the distance, the poses are those of the same
\* request without the fixed target, and the record has target_distance and
\* no target key. Every returned record has at most one of the keys target
\* and target_distance, and has target only when no distance was supplied
\* and a fixed target was.
C22_DistanceWins ==
    pc = "returned"
    => LET a    == Value(args)
           rec  == Value(result)
           keys == DOMAIN rec
       IN  /\ ~({ "target", "target_distance" } \subseteq keys)
           /\ "target" \in keys
                => IsNone(a.target_distance) /\ ~IsNone(a.target)
           /\ BothSupplied(a)
                => /\ "target_distance" \in keys
                   /\ "target" \notin keys
                   /\ rec.target_distance = Value(a.target_distance)
                   /\ \A k \in DOMAIN rec.poses :
                        rec.poses[k].target
                          = Emitted(a, calculate_target_from_distance(
                                         SampleAt(a, rec.poses[k].frame - 1),
                                         a.center, Value(a.target_distance)))
                   /\ rec.poses
                        = Value(generate_camera_animation(
                                  [ a EXCEPT !.target = None ],
                                  rec.export_timestamp).data).poses

\* C22's case: a record returned for a request with both a fixed target
\* and a distance, of two poses or more, none of which aims at the fixed
\* target.
C22_Witness ==
    /\ pc = "returned"
    /\ BothSupplied(Value(args))
    /\ "target_distance" \in DOMAIN Value(result)
    /\ Len(Value(result).poses) >= 2
    /\ \A k \in DOMAIN Value(result).poses :
         Value(result).poses[k].target
             # Emitted(Value(args), Value(args).target)

\* The progress.stop callbacks of worker w waiting in the main loop, and
\* the boxes of one kind it has scheduled or had shown.
StopsQueued(q, w) ==
    Cardinality({ k \in DOMAIN q : q[k] = Callback("progress.stop", w) })

Reported(kind, w) ==
    \/ \E k \in DOMAIN after_queue : after_queue[k] = Callback(kind, w)
    \/ \E k \in DOMAIN messages :
         messages[k].kind = kind /\ messages[k].worker = w

\* A thread is started only by a click that validate_inputs let through.
StartedByValidClick ==
    workers' # workers /\ Len(workers') # Len(workers)
    => /\ clicks' = clicks + 1
       /\ validate_inputs(form)
       /\ workers' = Append(workers, NewWorker(form))

\* A thread schedules progress.stop when it ends and at no other step, one
\* callback each time, and an ended thread takes no further step.
StopScheduledAtEnd ==
    \A w \in DOMAIN workers :
        /\ workers[w].pc = "done" => workers'[w] = workers[w]
        /\ (workers[w].pc # "done" /\ workers'[w].pc = "done")
             => StopsQueued(after_queue', w) = StopsQueued(after_queue, w) + 1
        /\ StopsQueued(after_queue', w) > StopsQueued(after_queue, w)
             => workers[w].pc # "done" /\ workers'[w].pc = "done"

\* An unfinished thread has reported nothing; a finished one has reported
\* the error or the success, never both, and the error if it failed.
OutcomeReported ==
    \A w \in DOMAIN workers :
        /\ validate_inputs(workers[w].checked)
        /\ workers[w].pc # "done"
             => ~Reported("showerror", w) /\ ~Reported("showinfo", w)
        /\ workers[w].pc = "done"
             => /\ workers[w].outcome \in { "error", "success" }
                /\ Reported("showerror", w) <=> workers[w].outcome = "error"
                /\ Reported("showinfo", w) <=> workers[w].outcome = "success"
                /\ workers[w].outcome = "success" <=> ~IsNone(workers[w].wrote)

====
